---- MODULE Spec2Model ----
(***************************************************************************)
(* Model of the alignment-safe memory layer of arm-neon-simd               *)
(* (src/memory_align.h, src/neon_types.h): the raw aligned allocator, the  *)
(* AlignedBuffer container and the bulk copy / fill kernels.               *)
(*                                                                         *)
(* The heap is a finite set of disjoint slots.  A slot is identified by    *)
(* the byte address of its first byte; a live slot belongs to whoever      *)
(* allocated it ("buf": the AlignedBuffer, "raw": a direct caller of       *)
(* aligned_malloc).  Pointers are byte addresses, NULL is 0.  Every C      *)
(* function is an operator that returns the SET of outcomes the call can   *)
(* have (allocation may fail; releasing an already released block is       *)
(* undefined behaviour: the allocator may abort, ignore the call, or put    *)
(* the block on its free list a second time and later hand it out while it *)
(* is live).  Releasing a block leaves its bytes in memory.                 *)
(***************************************************************************)
EXTENDS Integers, Sequences, FiniteSets, TLC

VARIABLES
    buf,      \* the AlignedBuffer: [data, size, capacity]
    heap,     \* slot address -> [owner, bytes, cells, listed]
    rawPtrs,  \* the pointers a caller of aligned_malloc itself holds
    phase,    \* "none": no buffer constructed yet, "live", "destroyed"
    pc,       \* "run", or "aborted" once the allocator has aborted the process
    lastOp,   \* the last call: [op, null, n, align, alloc, ptr]
    ret,      \* the error code the last call returned ("none": void, a pointer, or no return)
    fault,    \* memory-safety violations committed by the last call
    pre,      \* phase before the last call; buf and heap before it, when it
              \* was a call of resize or aligned_malloc
    ram,      \* flat float memory the bulk kernels work on
    ram0,     \* ram before the bulk call
    call,     \* the bulk call: [op, dst, src, value, size]
    bpc       \* "ready" before the bulk call, "done" after it

vars == <<buf, heap, rawPtrs, phase, pc, lastOp, ret, fault, pre, ram, ram0, call, bpc>>

bufVars  == <<buf, heap, rawPtrs, phase, pc, lastOp, ret, fault, pre>>
bulkVars == <<ram, ram0, call, bpc>>

----------------------------------------------------------------------------
(* Bounds of the model *)

\* width of size_t in bits; byte counts are computed modulo 2^SizeBits
SizeBits == 4
\* largest element count that does not make the byte count wrap in the runs
MaxCap == 2
\* number of 16-byte aligned heap slots
NumSlots == 2
\* largest number of surplus entries the allocator's free list can hold (a
\* block gets one by being released while it is not live)
MaxDup == 1
\* largest element count handed to the bulk kernels
MaxCount == 35

----------------------------------------------------------------------------
(* Program constants *)

NULL == 0
NEON_ALIGNMENT == 16
SizeofFloat == 4
PointerBytes == 8
NEON_F32_LANES == 4

\* the NeonError codes, by name
NEON_SUCCESS == "NEON_SUCCESS"
NEON_ERROR_NULL_POINTER == "NEON_ERROR_NULL_POINTER"
NEON_ERROR_OUT_OF_MEMORY == "NEON_ERROR_OUT_OF_MEMORY"
NEON_ERROR_INVALID_PARAM == "NEON_ERROR_INVALID_PARAM"

\* an indeterminate float (storage that was allocated and never written)
Undef == -1

----------------------------------------------------------------------------
(* Arithmetic helpers *)

RECURSIVE Pow2(_)
Pow2(n) == IF n = 0 THEN 1 ELSE 2 * Pow2(n - 1)

SizeModulus == Pow2(SizeBits)

\* a * b in size_t arithmetic
MulSize(a, b) == (a * b) % SizeModulus

RECURSIVE BitAnd(_, _)
BitAnd(a, b) ==
    IF a = 0 \/ b = 0 THEN 0
    ELSE (a % 2) * (b % 2) + 2 * BitAnd(a \div 2, b \div 2)

\* IS_ALIGNED(ptr): ((uintptr_t)(ptr) & (NEON_ALIGNMENT - 1)) == 0
IS_ALIGNED(ptr) == BitAnd(ptr, NEON_ALIGNMENT - 1) = 0

----------------------------------------------------------------------------
(* The heap *)

\* one slot at address 8, which is pointer-aligned only, and NumSlots slots at
\* the multiples of 16; a slot reaches up to the next one
Addrs == {PointerBytes} \cup {k * NEON_ALIGNMENT : k \in 1..NumSlots}

Room(a) == IF a = PointerBytes THEN PointerBytes ELSE NEON_ALIGNMENT

\* a slot that was never allocated.  owner "none" means the slot is free and
\* on the allocator's free list once; listed counts the entries the free list
\* holds for the slot beyond that (0 unless the allocator is corrupted)
FreeSlot == [owner |-> "none", bytes |-> 0, cells |-> <<>>, listed |-> 0]

EmptyHeap == [a \in Addrs |-> FreeSlot]

\* the slot after the allocator has handed it out for `size` bytes.  A free
\* slot comes with indeterminate contents.  A slot that is live and listed is
\* handed out a second time: its bytes are left as they are and one surplus
\* entry is used up
FreshSlot(old, who, size) ==
    [owner |-> who, bytes |-> size,
     cells |-> [i \in 1..(size \div SizeofFloat) |->
                  IF old.owner # "none" /\ i <= Len(old.cells)
                  THEN old.cells[i] ELSE Undef],
     listed |-> IF old.owner = "none" THEN old.listed ELSE old.listed - 1]

\* the buffer's handle does not refer to a live block of its own
Stale(b, h) == b.data # NULL /\ h[b.data].owner # "buf"

\* libc posix_memalign(&ptr, alignment, size) as POSIX specifies it: EINVAL
\* unless alignment is a power of two multiple of sizeof(void*); otherwise it
\* may fail with ENOMEM or return any suitably aligned block of its free list
\* (for size 0 it may also store a null pointer and report success)
posix_memalign(h, alignment, size, who) ==
    IF alignment = 0 \/ BitAnd(alignment, alignment - 1) # 0
       \/ alignment % PointerBytes # 0
    THEN {[rc |-> "EINVAL", ptr |-> NULL, heap |-> h]}
    ELSE {[rc |-> "ENOMEM", ptr |-> NULL, heap |-> h]}
         \cup {[rc |-> "ok", ptr |-> a,
                heap |-> [h EXCEPT ![a] = FreshSlot(h[a], who, size)]] :
                 a \in {x \in Addrs : /\ h[x].owner = "none" \/ h[x].listed > 0
                                      /\ x % alignment = 0
                                      /\ size <= Room(x)}}
         \cup (IF size = 0 THEN {[rc |-> "ok", ptr |-> NULL, heap |-> h]} ELSE {})

\* the power-of-two test of aligned_malloc
BadAlignment(alignment) ==
    alignment = 0 \/ BitAnd(alignment, alignment - 1) # 0

\* faulty variant of aligned_malloc: an invalid alignment is replaced by sizeof(void*)
aligned_malloc_fallback(h, size, alignment, who) ==
    {[ptr |-> IF r.rc # "ok" THEN NULL ELSE r.ptr, heap |-> r.heap] :
        r \in posix_memalign(h, IF BadAlignment(alignment) THEN PointerBytes
                                ELSE alignment, size, who)}

aligned_malloc(h, size, alignment, who) ==
    IF BadAlignment(alignment)
    THEN {[ptr |-> NULL, heap |-> h]}
    ELSE {[ptr |-> IF r.rc # "ok" THEN NULL ELSE r.ptr, heap |-> r.heap] :
            r \in posix_memalign(h, alignment, size, who)}

\* the number of surplus free-list entries for the slots in S
RECURSIVE Surplus(_, _)
Surplus(h, S) ==
    IF S = {} THEN 0
    ELSE LET a == CHOOSE x \in S : TRUE
         IN h[a].listed + Surplus(h, S \ {a})

\* aligned_free: a no-op on NULL, else free(ptr), which leaves the bytes of
\* the block in memory.  free of an address that holds no live block is
\* undefined: the allocator may detect it and abort the process, ignore it, or
\* enter the block into its free list once more
aligned_free(h, ptr) ==
    IF ptr = NULL THEN {[heap |-> h, aborted |-> FALSE]}
    ELSE IF h[ptr].owner # "none"
    THEN {[heap |-> [h EXCEPT ![ptr].owner = "none"], aborted |-> FALSE]}
    ELSE {[heap |-> h, aborted |-> TRUE], [heap |-> h, aborted |-> FALSE]}
         \cup (IF Surplus(h, Addrs) < MaxDup
               THEN {[heap |-> [h EXCEPT ![ptr].listed = @ + 1], aborted |-> FALSE]}
               ELSE {})

\* faulty variant of neon_malloc: asks for pointer alignment only
neon_malloc_ptr_aligned(h, size, who) == aligned_malloc(h, size, PointerBytes, who)

neon_malloc(h, size, who) == aligned_malloc(h, size, NEON_ALIGNMENT, who)

neon_free(h, ptr) == aligned_free(h, ptr)

----------------------------------------------------------------------------
(* Block accesses *)

\* the float in memory at index i (from 0) of the block at address a;
\* indeterminate beyond the end of the block
LoadCell(h, a, i) ==
    IF a # NULL /\ i < Len(h[a].cells)
    THEN h[a].cells[i + 1] ELSE Undef

\* memcpy(dst, src, bytes) between heap blocks, bytes a multiple of 4.  Reading
\* a released source is undefined: the copy gets the bytes the block was left
\* with, or indeterminate ones.  overflow: the call writes past the end of dst
\* or reads past the end of src (what lies there is indeterminate)
memcpy(h, dst, src, bytes) ==
    LET k == bytes \div SizeofFloat
        n == Len(h[dst].cells)
        Copied(stale) ==
            [heap |-> [h EXCEPT ![dst].cells =
                         [i \in 1..n |-> IF i <= k
                                         THEN IF stale THEN Undef
                                              ELSE LoadCell(h, src, i - 1)
                                         ELSE h[dst].cells[i]]],
             overflow |-> k > n \/ k > Len(h[src].cells)]
    IN {Copied(FALSE)}
       \cup (IF h[src].owner = "none" /\ k > 0 THEN {Copied(TRUE)} ELSE {})

\* memset(dst, 0, bytes): all-zero bytes are the float 0
memset(h, dst, bytes) ==
    LET k == bytes \div SizeofFloat
        n == Len(h[dst].cells)
    IN [heap |-> [h EXCEPT ![dst].cells =
                     [i \in 1..n |-> IF i <= k THEN 0 ELSE h[dst].cells[i]]],
        overflow |-> k > n]

----------------------------------------------------------------------------
(* AlignedBuffer operations: each returns the set of its outcomes *)

NoBuffer == [data |-> NULL, size |-> 0, capacity |-> 0]

aligned_buffer_create(h, capacity) ==
    {[buf |-> [data |-> m.ptr, size |-> 0,
               capacity |-> IF m.ptr = NULL THEN 0 ELSE capacity],
      heap |-> m.heap,
      alloc |-> IF m.ptr = NULL THEN "fail" ELSE "ok"] :
        m \in neon_malloc(h, MulSize(capacity, SizeofFloat), "buf")}

\* line 131 is the comparison `buffer->data == NULL;`: data keeps its value
aligned_buffer_destroy(b, h, isNull) ==
    IF isNull
    THEN {[buf |-> b, heap |-> h, aborted |-> FALSE, fault |-> {}]}
    ELSE {[buf |-> IF f.aborted THEN b
                   ELSE [b EXCEPT !.size = 0, !.capacity = 0],
           heap |-> f.heap,
           aborted |-> f.aborted,
           fault |-> IF Stale(b, h) THEN {"double_free"} ELSE {}] :
             f \in IF b.data # NULL THEN neon_free(h, b.data)
                   ELSE {[heap |-> h, aborted |-> FALSE]}}

\* what resize does once new_data is a block of heap h; h0 is the heap the
\* call started with
ResizeInto(b, h0, h, new_data, new_capacity) ==
    LET bytes == MulSize(b.size, SizeofFloat)
        cps == IF b.data # NULL
               THEN memcpy(h, new_data, b.data, bytes)
               ELSE {[heap |-> h, overflow |-> FALSE]}
        Flt(cp) == (IF Stale(b, h0) THEN {"double_free"} ELSE {})
                   \cup (IF Stale(b, h0) /\ bytes > 0
                         THEN {"use_after_free"} ELSE {})
                   \cup (IF cp.overflow THEN {"overflow"} ELSE {})
    IN UNION {
         {[buf |-> IF f.aborted THEN b
                   ELSE [b EXCEPT !.data = new_data, !.capacity = new_capacity],
           heap |-> f.heap,
           ret |-> IF f.aborted THEN "none" ELSE NEON_SUCCESS,
           aborted |-> f.aborted,
           fault |-> Flt(cp),
           alloc |-> "ok"] :
             f \in IF b.data # NULL THEN neon_free(cp.heap, b.data)
                   ELSE {[heap |-> cp.heap, aborted |-> FALSE]}} :
         cp \in cps}

\* faulty variant of aligned_buffer_resize: releases the old block before it looks at
\* the result of the allocation
aligned_buffer_resize_release_first(b, h, isNull, new_capacity) ==
    IF isNull
    THEN {[buf |-> b, heap |-> h, ret |-> NEON_ERROR_NULL_POINTER,
           aborted |-> FALSE, fault |-> {}, alloc |-> "none"]}
    ELSE IF new_capacity <= b.capacity
    THEN {[buf |-> b, heap |-> h, ret |-> NEON_SUCCESS,
           aborted |-> FALSE, fault |-> {}, alloc |-> "none"]}
    ELSE UNION {
        IF m.ptr = NULL
        THEN {[buf |-> b, heap |-> f.heap, ret |-> NEON_ERROR_OUT_OF_MEMORY,
               aborted |-> FALSE, fault |-> {}, alloc |-> "fail"] :
                 f \in {x \in neon_free(h, b.data) : ~x.aborted}}
        ELSE ResizeInto(b, h, m.heap, m.ptr, new_capacity) :
          m \in neon_malloc(h, MulSize(new_capacity, SizeofFloat), "buf")}

aligned_buffer_resize(b, h, isNull, new_capacity) ==
    IF isNull
    THEN {[buf |-> b, heap |-> h, ret |-> NEON_ERROR_NULL_POINTER,
           aborted |-> FALSE, fault |-> {}, alloc |-> "none"]}
    ELSE IF new_capacity <= b.capacity
    THEN {[buf |-> b, heap |-> h, ret |-> NEON_SUCCESS,
           aborted |-> FALSE, fault |-> {}, alloc |-> "none"]}
    ELSE UNION {
        IF m.ptr = NULL
        THEN {[buf |-> b, heap |-> m.heap, ret |-> NEON_ERROR_OUT_OF_MEMORY,
               aborted |-> FALSE, fault |-> {}, alloc |-> "fail"]}
        ELSE ResizeInto(b, h, m.heap, m.ptr, new_capacity) :
          m \in neon_malloc(h, MulSize(new_capacity, SizeofFloat), "buf")}

aligned_buffer_clear(b, h, isNull) ==
    IF isNull \/ b.data = NULL
    THEN [buf |-> b, heap |-> h, fault |-> {}]
    ELSE LET bytes == MulSize(b.capacity, SizeofFloat)
             ms == memset(h, b.data, bytes)
         IN [buf |-> [b EXCEPT !.size = 0],
             heap |-> ms.heap,
             fault |-> (IF Stale(b, h) /\ bytes > 0
                        THEN {"use_after_free"} ELSE {})
                       \cup (IF ~Stale(b, h) /\ ms.overflow
                             THEN {"overflow"} ELSE {})]

----------------------------------------------------------------------------
(* Bulk kernels over raw float spans.  ram is a flat array of floats whose  *)
(* element e lies at byte address e * sizeof(float); a float pointer is a   *)
(* byte address.  A span of `size` floats lies in memory, so the byte count *)
(* size * sizeof(float) of a span does not wrap.                            *)

\* the index in ram of p[i] for a float pointer p
Elem(p, i) == p \div SizeofFloat + i

\* vld1q_f32(p): the four floats at p
vld1q_f32(m, p) == [l \in 0..3 |-> m[Elem(p, l)]]

\* vst1q_f32(p, v): store the four lanes of v at p
vst1q_f32(m, p, v) ==
    [e \in DOMAIN m |-> IF e - Elem(p, 0) \in 0..3 THEN v[e - Elem(p, 0)] ELSE m[e]]

\* vdupq_n_f32(value)
vdupq_n_f32(value) == [l \in 0..3 |-> value]

\* p + i for a float pointer p
PtrAdd(p, i) == p + i * SizeofFloat

\* dst[i] = x
StoreElem(m, dst, i, x) == [m EXCEPT ![Elem(dst, i)] = x]

\* memcpy(dst, src, bytes) within ram, for non-overlapping spans
ram_memcpy(m, dst, src, bytes) ==
    LET k == bytes \div SizeofFloat
    IN [e \in DOMAIN m |->
          IF e - Elem(dst, 0) \in 0..(k - 1)
          THEN m[Elem(src, e - Elem(dst, 0))] ELSE m[e]]

\* faulty variant of Copy16Body: the fourth load repeats the third address
Copy16BodyRepeatedLoad(m, dst, src, i) ==
    LET v0 == vld1q_f32(m, PtrAdd(src, i))
        v1 == vld1q_f32(m, PtrAdd(src, i + 4))
        v2 == vld1q_f32(m, PtrAdd(src, i + 8))
        v3 == vld1q_f32(m, PtrAdd(src, i + 8))
        m0 == vst1q_f32(m, PtrAdd(dst, i), v0)
        m1 == vst1q_f32(m0, PtrAdd(dst, i + 4), v1)
        m2 == vst1q_f32(m1, PtrAdd(dst, i + 8), v2)
    IN vst1q_f32(m2, PtrAdd(dst, i + 12), v3)

\* one iteration of the 16-float loop of neon_memory_f32
Copy16Body(m, dst, src, i) ==
    LET v0 == vld1q_f32(m, PtrAdd(src, i))
        v1 == vld1q_f32(m, PtrAdd(src, i + 4))
        v2 == vld1q_f32(m, PtrAdd(src, i + 8))
        v3 == vld1q_f32(m, PtrAdd(src, i + 12))
        m0 == vst1q_f32(m, PtrAdd(dst, i), v0)
        m1 == vst1q_f32(m0, PtrAdd(dst, i + 4), v1)
        m2 == vst1q_f32(m1, PtrAdd(dst, i + 8), v2)
    IN vst1q_f32(m2, PtrAdd(dst, i + 12), v3)

\* the loops return the memory and the index they stopped at
RECURSIVE Copy16Loop(_, _, _, _, _)
Copy16Loop(m, dst, src, i, size) ==
    IF i + 16 <= size
    THEN Copy16Loop(Copy16Body(m, dst, src, i), dst, src, i + 16, size)
    ELSE [m |-> m, i |-> i]

RECURSIVE Copy4Loop(_, _, _, _, _)
Copy4Loop(m, dst, src, i, size) ==
    IF i + 4 <= size
    THEN Copy4Loop(vst1q_f32(m, PtrAdd(dst, i), vld1q_f32(m, PtrAdd(src, i))),
                   dst, src, i + 4, size)
    ELSE [m |-> m, i |-> i]

RECURSIVE Copy1Loop(_, _, _, _, _)
Copy1Loop(m, dst, src, i, size) ==
    IF i < size
    THEN Copy1Loop(StoreElem(m, dst, i, m[Elem(src, i)]), dst, src, i + 1, size)
    ELSE [m |-> m, i |-> i]

neon_memory_f32(m, dst, src, size) ==
    IF ~IS_ALIGNED(dst) \/ ~IS_ALIGNED(src)
    THEN ram_memcpy(m, dst, src, size * SizeofFloat)
    ELSE LET a == Copy16Loop(m, dst, src, 0, size)
             b == Copy4Loop(a.m, dst, src, a.i, size)
             c == Copy1Loop(b.m, dst, src, b.i, size)
         IN c.m

\* one iteration of the 16-float loop of neon_fill_f32
Fill16Body(m, dst, v, i) ==
    LET m0 == vst1q_f32(m, PtrAdd(dst, i), v)
        m1 == vst1q_f32(m0, PtrAdd(dst, i + 4), v)
        m2 == vst1q_f32(m1, PtrAdd(dst, i + 8), v)
    IN vst1q_f32(m2, PtrAdd(dst, i + 12), v)

RECURSIVE Fill16Loop(_, _, _, _, _)
Fill16Loop(m, dst, v, i, size) ==
    IF i + 16 <= size
    THEN Fill16Loop(Fill16Body(m, dst, v, i), dst, v, i + 16, size)
    ELSE [m |-> m, i |-> i]

\* faulty variant of Fill4Step: a vector store is issued while any element is left
Fill4StepWhileAnyLeft(m, dst, v, i, size) ==
    IF i < size
    THEN [m |-> vst1q_f32(m, PtrAdd(dst, i), v), i |-> i + 4, more |-> TRUE]
    ELSE [m |-> m, i |-> i, more |-> FALSE]

\* the test and the body of the 4-float loop of neon_fill_f32
Fill4Step(m, dst, v, i, size) ==
    IF i + 4 <= size
    THEN [m |-> vst1q_f32(m, PtrAdd(dst, i), v), i |-> i + 4, more |-> TRUE]
    ELSE [m |-> m, i |-> i, more |-> FALSE]

RECURSIVE Fill4Loop(_, _, _, _, _)
Fill4Loop(m, dst, v, i, size) ==
    LET s == Fill4Step(m, dst, v, i, size)
    IN IF s.more THEN Fill4Loop(s.m, dst, v, s.i, size) ELSE [m |-> s.m, i |-> s.i]

\* the scalar loop of neon_fill_f32, from index i
RECURSIVE Fill1Loop(_, _, _, _, _)
Fill1Loop(m, dst, value, i, size) ==
    IF i < size
    THEN Fill1Loop(StoreElem(m, dst, i, value), dst, value, i + 1, size)
    ELSE [m |-> m, i |-> i]

neon_fill_f32(m, dst, value, size) ==
    IF ~IS_ALIGNED(dst)
    THEN Fill1Loop(m, dst, value, 0, size).m
    ELSE LET v == vdupq_n_f32(value)
             a == Fill16Loop(m, dst, v, 0, size)
             b == Fill4Loop(a.m, dst, v, a.i, size)
             c == Fill1Loop(b.m, dst, value, b.i, size)
         IN c.m

----------------------------------------------------------------------------
(* The calls of the buffer's owner *)

\* element counts the owner asks for: the small ones, and the two smallest
\* whose byte count does not fit size_t (the first wraps to 0, the second to 4)
ReqCaps == (0..MaxCap) \cup {Pow2(SizeBits - 2), Pow2(SizeBits - 2) + 1}

\* the floats the owner stores
CallerVals == {1, 2}

\* byte counts and alignments handed to aligned_malloc directly
RawSizes == {0, SizeofFloat, NEON_ALIGNMENT}
RawAligns == {0, 3, 4, PointerBytes, 12, NEON_ALIGNMENT}

Op(name, isNull, n, align, alloc, ptr) ==
    [op |-> name, null |-> isNull, n |-> n, align |-> align,
     alloc |-> alloc, ptr |-> ptr]

NoOp == Op("none", FALSE, 0, 0, "none", NULL)

\* what pre records at a call of resize or aligned_malloc, and at other calls
Snapshot == [buf |-> buf, heap |-> heap, phase |-> phase]
SnapshotPhase == [buf |-> NoBuffer, heap |-> EmptyHeap, phase |-> phase]

\* the bytes of a released block can be read through a pointer to it only: once
\* the program holds no pointer to a released block, its bytes are dropped
Forget(h, ptrs) ==
    [a \in Addrs |-> IF h[a].owner = "none" /\ a \notin ptrs
                     THEN [h[a] EXCEPT !.bytes = 0, !.cells = <<>>]
                     ELSE h[a]]

BufInit ==
    /\ buf = NoBuffer
    /\ heap = EmptyHeap
    /\ rawPtrs = {}
    /\ phase = "none"
    /\ pc = "run"
    /\ lastOp = NoOp
    /\ ret = "none"
    /\ fault = {}
    /\ pre = [buf |-> NoBuffer, heap |-> EmptyHeap, phase |-> "none"]

\* buf = aligned_buffer_create(capacity), into a variable that holds no buffer
Create ==
    /\ pc = "run" /\ phase \in {"none", "destroyed"}
    /\ \E capacity \in ReqCaps : \E o \in aligned_buffer_create(heap, capacity) :
        /\ buf' = o.buf
        /\ heap' = Forget(o.heap, {o.buf.data})
        /\ lastOp' = Op("create", FALSE, capacity, 0, o.alloc, o.buf.data)
    /\ phase' = "live"
    /\ ret' = "none"
    /\ fault' = {}
    /\ pre' = SnapshotPhase
    /\ UNCHANGED <<rawPtrs, pc>>

\* aligned_buffer_destroy(&buf) or aligned_buffer_destroy(NULL)
Destroy ==
    /\ pc = "run" /\ phase # "none"
    /\ \E isNull \in BOOLEAN : \E o \in aligned_buffer_destroy(buf, heap, isNull) :
        /\ buf' = o.buf
        /\ heap' = Forget(o.heap, {o.buf.data})
        /\ fault' = o.fault
        /\ pc' = IF o.aborted THEN "aborted" ELSE "run"
        /\ phase' = IF isNull \/ o.aborted THEN phase ELSE "destroyed"
        /\ lastOp' = Op("destroy", isNull, 0, 0, "none", NULL)
    /\ ret' = "none"
    /\ pre' = SnapshotPhase
    /\ UNCHANGED rawPtrs

\* aligned_buffer_resize(&buf, new_capacity) or aligned_buffer_resize(NULL, MaxCap)
Resize ==
    /\ pc = "run" /\ phase # "none"
    /\ \E isNull \in BOOLEAN :
       \E new_capacity \in IF isNull THEN {MaxCap} ELSE ReqCaps :
       \E o \in aligned_buffer_resize(buf, heap, isNull, new_capacity) :
        /\ buf' = o.buf
        /\ heap' = Forget(o.heap, {o.buf.data})
        /\ fault' = o.fault
        /\ ret' = o.ret
        /\ pc' = IF o.aborted THEN "aborted" ELSE "run"
        /\ phase' = IF o.alloc = "ok" /\ ~o.aborted THEN "live" ELSE phase
        /\ lastOp' = Op("resize", isNull, new_capacity, 0, o.alloc, NULL)
    /\ pre' = Snapshot
    /\ UNCHANGED rawPtrs

\* aligned_buffer_clear(&buf) or aligned_buffer_clear(NULL)
Clear ==
    /\ pc = "run" /\ phase # "none"
    /\ \E isNull \in BOOLEAN :
        LET o == aligned_buffer_clear(buf, heap, isNull)
        IN /\ buf' = o.buf
           /\ heap' = Forget(o.heap, {o.buf.data})
           /\ fault' = o.fault
           /\ lastOp' = Op("clear", isNull, 0, 0, "none", NULL)
    /\ ret' = "none"
    /\ pre' = SnapshotPhase
    /\ UNCHANGED <<rawPtrs, phase, pc>>

\* the owner sets buf.size, to a value <= buf.capacity
CallerSetSize ==
    /\ pc = "run" /\ phase # "none"
    /\ \E n \in 0..buf.capacity :
        /\ n # buf.size
        /\ buf' = [buf EXCEPT !.size = n]
        /\ lastOp' = Op("set_size", FALSE, n, 0, "none", NULL)
    /\ ret' = "none"
    /\ fault' = {}
    /\ pre' = SnapshotPhase
    /\ UNCHANGED <<heap, rawPtrs, phase, pc>>

\* the owner stores buf.data[i] = v for an index below buf.capacity
CallerWrite ==
    /\ pc = "run" /\ phase # "none" /\ buf.data # NULL
    /\ \E i \in 0..(buf.capacity - 1) : \E v \in CallerVals :
        LET inBlock == i < Len(heap[buf.data].cells)
        IN /\ heap' = IF inBlock
                      THEN [heap EXCEPT ![buf.data].cells[i + 1] = v]
                      ELSE heap
           /\ fault' = IF Stale(buf, heap) THEN {"use_after_free"}
                       ELSE IF ~inBlock THEN {"overflow"} ELSE {}
           /\ lastOp' = Op("write", FALSE, 0, 0, "none", NULL)
    /\ ret' = "none"
    /\ pre' = SnapshotPhase
    /\ UNCHANGED <<buf, rawPtrs, phase, pc>>

\* p = aligned_malloc(size, alignment), by a caller that keeps p when it is
\* not null
RawMalloc ==
    /\ pc = "run"
    /\ \E size \in RawSizes : \E alignment \in RawAligns :
       \E o \in aligned_malloc(heap, size, alignment, "raw") :
        /\ rawPtrs' = IF o.ptr = NULL THEN rawPtrs ELSE rawPtrs \cup {o.ptr}
        /\ heap' = Forget(o.heap, rawPtrs \cup {o.ptr, buf.data})
        /\ lastOp' = Op("aligned_malloc", FALSE, size, alignment,
                        IF o.ptr = NULL THEN "fail" ELSE "ok", o.ptr)
    /\ ret' = "none"
    /\ fault' = {}
    /\ pre' = Snapshot
    /\ UNCHANGED <<buf, phase, pc>>

\* aligned_free(p) of a pointer the caller holds, or aligned_free(NULL)
RawFree ==
    /\ pc = "run"
    /\ \E p \in rawPtrs \cup {NULL} : \E o \in aligned_free(heap, p) :
        /\ heap' = Forget(o.heap, (rawPtrs \ {p}) \cup {buf.data})
        /\ pc' = IF o.aborted THEN "aborted" ELSE "run"
        /\ rawPtrs' = rawPtrs \ {p}
        /\ lastOp' = Op("aligned_free", p = NULL, 0, 0, "none", p)
    /\ ret' = "none"
    /\ fault' = {}
    /\ pre' = SnapshotPhase
    /\ UNCHANGED <<buf, phase>>

\* no bulk call is under way
BulkIdle ==
    /\ ram = <<>>
    /\ ram0 = <<>>
    /\ call = [op |-> "none", dst |-> 0, src |-> 0, value |-> 0, size |-> 0]
    /\ bpc = "idle"

\* layout of ram for a bulk call: the destination span starts 4..7 floats in,
\* the source span starts at SrcBase or up to 3 floats after it, and at least
\* four floats that belong to neither span lie before, between and after them
DstBase == NEON_F32_LANES
SrcBase == NEON_F32_LANES * ((MaxCount + 3) \div NEON_F32_LANES + 3)
RamLen == SrcBase + MaxCount + 8

\* every float of ram starts out with a value of its own
RamInit == [e \in 0..(RamLen - 1) |-> 100 + e]

\* the values neon_fill_f32 is asked to store
FillVals == {0, 7}

BulkInit ==
    /\ ram = RamInit
    /\ ram0 = RamInit
    /\ bpc = "ready"
    /\ \E dOff \in 0..3 : \E sOff \in 0..3 : \E size \in 0..MaxCount :
       \E value \in FillVals : \E op \in {"copy", "fill"} :
         /\ op = "copy" => value = 0
         /\ op = "fill" => sOff = 0
         /\ call = [op |-> op,
                    dst |-> (DstBase + dOff) * SizeofFloat,
                    src |-> (SrcBase + sOff) * SizeofFloat,
                    value |-> value, size |-> size]

\* neon_memory_f32(dst, src, size)
DoCopy ==
    /\ bpc = "ready" /\ call.op = "copy"
    /\ ram' = neon_memory_f32(ram, call.dst, call.src, call.size)
    /\ bpc' = "done"
    /\ UNCHANGED <<ram0, call>>

\* neon_fill_f32(dst, value, size)
DoFill ==
    /\ bpc = "ready" /\ call.op = "fill"
    /\ ram' = neon_fill_f32(ram, call.dst, call.value, call.size)
    /\ bpc' = "done"
    /\ UNCHANGED <<ram0, call>>

BulkNext ==
    \/ DoCopy /\ UNCHANGED bufVars
    \/ DoFill /\ UNCHANGED bufVars

BulkSpecInit == BufInit /\ BulkInit

BulkSpec == BulkSpecInit /\ [][BulkNext]_vars

Init == BufInit /\ BulkIdle

Next ==
    \/ Create /\ UNCHANGED bulkVars
    \/ Destroy /\ UNCHANGED bulkVars
    \/ Resize /\ UNCHANGED bulkVars
    \/ Clear /\ UNCHANGED bulkVars
    \/ CallerSetSize /\ UNCHANGED bulkVars
    \/ CallerWrite /\ UNCHANGED bulkVars

Spec == Init /\ [][Next]_vars

\* the raw allocator on its own
AllocNext ==
    \/ RawMalloc /\ UNCHANGED bulkVars
    \/ RawFree /\ UNCHANGED bulkVars

AllocSpec == Init /\ [][AllocNext]_vars

----------------------------------------------------------------------------
(* Properties of the AlignedBuffer operations *)

\* the last step was a call of the named operation on the buffer itself
Called(name) == lastOp.op = name /\ ~lastOp.null

\* the block the buffer's handle refers to is live, its own, and has a cell i
HasCell(b, h, i) ==
    b.data # NULL /\ h[b.data].owner = "buf" /\ i < Len(h[b.data].cells)

\* C1: a second aligned_buffer_destroy on a destroyed buffer does not fault,
\* releases nothing a second time, and leaves size = capacity = 0
C1_SecondDestroyIsSafe ==
    (Called("destroy") /\ pre.phase = "destroyed") =>
        /\ pc = "run"
        /\ "double_free" \notin fault
        /\ buf.size = 0 /\ buf.capacity = 0

\* C2: aligned_buffer_resize on a non-null buffer: with new_capacity <= capacity
\* it returns Success and changes nothing; with new_capacity > capacity and a
\* successful allocation it returns Success, capacity is new_capacity, size is
\* unchanged and the first size elements of the new block are the old ones
C2_ResizeContract ==
    Called("resize") =>
        /\ lastOp.n <= pre.buf.capacity =>
              ret = NEON_SUCCESS /\ buf = pre.buf
        /\ (lastOp.n > pre.buf.capacity /\ lastOp.alloc = "ok") =>
              /\ ret = NEON_SUCCESS
              /\ buf.capacity = lastOp.n
              /\ buf.size = pre.buf.size
              /\ \A i \in 0..(buf.size - 1) :
                    /\ HasCell(buf, heap, i)
                    /\ LoadCell(heap, buf.data, i)
                         = LoadCell(pre.heap, pre.buf.data, i)

\* C3: a growing resize whose allocation fails returns OutOfMemory and leaves
\* the handle, the contents, size, capacity and the whole heap as they were;
\* resize of a null buffer returns NullPointer and allocates nothing
C3_ResizeFailureLeavesBufferIntact ==
    /\ (lastOp.op = "resize" /\ lastOp.null) =>
          ret = NEON_ERROR_NULL_POINTER /\ heap = pre.heap /\ buf = pre.buf
    /\ (Called("resize") /\ lastOp.n > pre.buf.capacity /\ lastOp.alloc = "fail") =>
          ret = NEON_ERROR_OUT_OF_MEMORY /\ heap = pre.heap /\ buf = pre.buf

\* a grow of a buffer holding elements has failed for lack of memory
C3_Witness ==
    /\ Called("resize") /\ lastOp.alloc = "fail"
    /\ pre.buf.size > 0 /\ HasCell(buf, heap, 0) /\ LoadCell(heap, buf.data, 0) = 1
    /\ ret = NEON_ERROR_OUT_OF_MEMORY

\* C4: after any sequence of create, resize, clear and destroy (the owner
\* setting size only to values <= capacity): size <= capacity, and data is
\* null with capacity 0 or refers to a live block of exactly capacity elements
C4_BufferInvariant ==
    (phase # "none" /\ pc = "run") =>
        /\ buf.size <= buf.capacity
        /\ \/ buf.data = NULL /\ buf.capacity = 0
           \/ /\ buf.data # NULL
              /\ heap[buf.data].owner = "buf"
              /\ Len(heap[buf.data].cells) = buf.capacity

\* C8: aligned_buffer_create(capacity) returns a buffer whose data is 16-byte
\* aligned, with the capacity asked for and size 0, or, when the allocation
\* fails, a buffer with capacity 0, size 0 and null data
C8_CreateAlignedOrEmpty ==
    Called("create") =>
        /\ lastOp.alloc = "ok" =>
              /\ buf.data # NULL /\ IS_ALIGNED(buf.data)
              /\ heap[buf.data].owner = "buf"
              /\ buf.capacity = lastOp.n /\ buf.size = 0
        /\ lastOp.alloc = "fail" =>
              buf.data = NULL /\ buf.capacity = 0 /\ buf.size = 0
        /\ lastOp.alloc \in {"ok", "fail"}

\* a buffer of two elements has just been created
C8_Witness ==
    Called("create") /\ lastOp.alloc = "ok" /\ lastOp.n = 2 /\ buf.data # NULL

\* C9: after aligned_buffer_destroy, aligned_buffer_resize and
\* aligned_buffer_clear neither release nor read nor write the released block,
\* so no block is released twice
C9_DestroyedBufferIsReusable ==
    ((Called("resize") \/ Called("clear")) /\ pre.phase = "destroyed") =>
        pc = "run" /\ fault = {}

\* C10: create and resize never report a capacity larger than the number of
\* elements of the block they allocated
C10_CapacityIsAllocated ==
    ((Called("create") \/ Called("resize")) /\ lastOp.alloc = "ok" /\ pc = "run") =>
        buf.capacity <= Len(heap[buf.data].cells)

----------------------------------------------------------------------------
(* Properties of the raw allocator *)

\* n is a power of two (and so not zero)
IsPowerOfTwo(n) == \E k \in 0..(SizeBits + 4) : n = Pow2(k)

\* C7 as stated: aligned_malloc with an alignment that is zero or no power of
\* two fails with InvalidParam, which a caller can tell from the null result
\* of a failed allocation, and allocates nothing
C7_BadAlignmentIsInvalidParam ==
    (lastOp.op = "aligned_malloc" /\ ~IsPowerOfTwo(lastOp.align)) =>
        /\ ret = NEON_ERROR_INVALID_PARAM
        /\ ~(lastOp.ptr = NULL /\ ret = "none")
        /\ heap = pre.heap

\* C7 as amended: aligned_malloc with an alignment that is zero or no power of
\* two returns null, with no error code, and allocates nothing; a failed
\* allocation returns the same null result
C7_BadAlignmentReturnsNull ==
    lastOp.op = "aligned_malloc" =>
        /\ ~IsPowerOfTwo(lastOp.align) =>
              lastOp.ptr = NULL /\ ret = "none" /\ heap = pre.heap
        /\ lastOp.alloc = "fail" =>
              lastOp.ptr = NULL /\ ret = "none" /\ heap = pre.heap

\* aligned_malloc(4, 12) was called while another block was live
C7_Witness ==
    /\ lastOp.op = "aligned_malloc" /\ lastOp.align = 12 /\ lastOp.n = SizeofFloat
    /\ rawPtrs # {}
    /\ lastOp.ptr = NULL

----------------------------------------------------------------------------
(* Properties of the bulk kernels *)

\* C5: neon_memory_f32(dst, src, N) ends with dst[i] = src[i] for all i < N on
\* the aligned path and on the fallback path, and both leave memory as the
\* plain copy of N floats does
C5_CopyCopiesEveryElement ==
    (bpc = "done" /\ call.op = "copy") =>
        /\ \A i \in 0..(call.size - 1) :
              ram[Elem(call.dst, i)] = ram0[Elem(call.src, i)]
        /\ ram = ram_memcpy(ram0, call.dst, call.src, call.size * SizeofFloat)

\* an aligned copy of 16 + 4 + 3 floats has run
C5_Witness ==
    /\ bpc = "done" /\ call.op = "copy" /\ call.size = 23
    /\ IS_ALIGNED(call.dst) /\ IS_ALIGNED(call.src)
    /\ ram[Elem(call.dst, 22)] = ram0[Elem(call.src, 22)]
    /\ ram # ram0

\* C6: neon_fill_f32(dst, V, N) ends with dst[i] = V for all i < N and every
\* other float as it was, on the aligned path and on the scalar path
C6_FillWritesExactlyCount ==
    (bpc = "done" /\ call.op = "fill") =>
        \A e \in DOMAIN ram :
            ram[e] = IF e - Elem(call.dst, 0) \in 0..(call.size - 1)
                     THEN call.value ELSE ram0[e]

\* an aligned fill of 16 + 4 + 3 floats has run
C6_Witness ==
    /\ bpc = "done" /\ call.op = "fill" /\ call.size = 23 /\ call.value = 7
    /\ IS_ALIGNED(call.dst)
    /\ ram[Elem(call.dst, 22)] = 7
    /\ ram[Elem(call.dst, 23)] = ram0[Elem(call.dst, 23)]

====
